---------------------------- MODULE Spec2Model ----------------------------
(***************************************************************************)
(* Two-Level Segregated Fit allocator (tlsf.c), 32-bit target:             *)
(* size_t and pointers are 4 bytes wide, little-endian.                    *)
(*                                                                         *)
(* Memory is an array of 32-bit words indexed by byte address.  Block      *)
(* headers live in that memory exactly where the C code puts them, so a    *)
(* header write that lands in a payload is visible.  The control           *)
(* structure is kept in separate fields of the heap record; the address    *)
(* of control->block_null is NullBlock.  An "unsigned int" bitmap is       *)
(* represented by the set of positions of its 1 bits.                      *)
(***************************************************************************)
EXTENDS Integers, Sequences, FiniteSets, TLC

(***************************************************************************)
(* Program constants                                                       *)
(***************************************************************************)
SL_INDEX_COUNT_LOG2 == 2
ALIGN_SIZE_LOG2 == 2
ALIGN_SIZE == 4
FL_INDEX_MAX == 30
SL_INDEX_COUNT == 4
FL_INDEX_SHIFT == 4
FL_INDEX_COUNT == 27
SMALL_BLOCK_SIZE == 16

\* sizeof(size_t) on the modelled target
block_header_overhead == 4
\* offsetof(block_header_t, size) + sizeof(size_t)
block_start_offset == 8
\* sizeof(block_header_t) minus the size of a pointer
block_size_min == 12
\* (size_t)1 << FL_INDEX_MAX
block_size_max == 1073741824
\* sizeof(block_header_t): four 4-byte fields
sizeof_block_header_t == 16
\* width of size_t in bits
size_t_bits == 32

\* byte offsets of the fields of block_header_t
off_prev_phys_block == 0
off_size == 4
off_next_free == 8
off_prev_free == 12

(***************************************************************************)
(* Bounds of the explored configurations                                   *)
(***************************************************************************)
\* first address of the modelled RAM
ArenaBase == 256
\* bytes handed to tlsf_add_pool for the first and the second pool
Pool1Bytes == 56
Pool2Bytes == 20
\* how many calls a run makes
MaxCalls == 6

\* address of the control structure (and of control->block_null, its first member)
NullBlock == 16

ArenaEnd == ArenaBase + Pool1Bytes + Pool2Bytes + 8
\* word addresses of the modelled RAM
WordAddrs == {a \in ArenaBase..(ArenaEnd - 1) : a % 4 = 0}

Max(a, b) == IF a > b THEN a ELSE b
Min(a, b) == IF a < b THEN a ELSE b

\* 1 << k
Pow2(k) == 2 ^ k

(***************************************************************************)
(* tlsfbits.h: bit scans                                                   *)
(***************************************************************************)
\* index of the highest set bit of a size_t, -1 for 0
tlsf_fls_sizet(size) ==
    IF size <= 0 THEN -1
    ELSE CHOOSE k \in 0..30 : Pow2(k) <= size /\ (k = 30 \/ size < Pow2(k + 1))

\* index of the lowest set bit of a word given as its set of 1-bit positions, -1 for 0
tlsf_ffs(bits) ==
    IF bits = {} THEN -1
    ELSE CHOOSE k \in bits : \A j \in bits : k <= j

\* ~0 << k  as a set of bit positions of a 32-bit word
ShlOnes(k) == {i \in 0..31 : i >= k}

(***************************************************************************)
(* Size word: size | flags                                                 *)
(***************************************************************************)
\* x & ~(block_header_free_bit | block_header_prev_free_bit)
SizeBits(x) == x - (x % 4)
\* x & (block_header_free_bit | block_header_prev_free_bit)
FlagBits(x) == x % 4
FreeBit(x) == x % 2
PrevFreeBit(x) == (x \div 2) % 2
\* a | b on the two low bits
Or2(a, b) == Max(a % 2, b % 2) + 2 * Max((a \div 2) % 2, (b \div 2) % 2)

(***************************************************************************)
(* align_up, align_down, align_ptr, adjust_request_size                    *)
(***************************************************************************)
\* (x + (align - 1)) & ~(align - 1), align a power of two
align_up(x, align) == (x + (align - 1)) - ((x + (align - 1)) % align)

\* x - (x & (align - 1))
align_down(x, align) == x - (x % align)

align_ptr(ptr, align) == (ptr + (align - 1)) - ((ptr + (align - 1)) % align)

adjust_request_size(size, align) ==
    IF size # 0 /\ size < block_size_max
    THEN Max(align_up(size, align), block_size_min)
    ELSE 0

(***************************************************************************)
(* mapping_insert, mapping_search                                          *)
(***************************************************************************)
\* x ^ (1 << SL_INDEX_COUNT_LOG2)
XorSlBit(x) == IF (x \div SL_INDEX_COUNT) % 2 = 1 THEN x - SL_INDEX_COUNT ELSE x + SL_INDEX_COUNT

mapping_insert(size) ==
    IF size < SMALL_BLOCK_SIZE
    THEN [fl |-> 0, sl |-> size \div (SMALL_BLOCK_SIZE \div SL_INDEX_COUNT)]
    ELSE LET fl == tlsf_fls_sizet(size)
         IN [fl |-> fl - (FL_INDEX_SHIFT - 1),
             sl |-> XorSlBit(size \div Pow2(fl - SL_INDEX_COUNT_LOG2))]

mapping_search(size) ==
    IF size >= Pow2(SL_INDEX_COUNT_LOG2)
    THEN mapping_insert(size + (Pow2(tlsf_fls_sizet(size) - SL_INDEX_COUNT_LOG2) - 1))
    ELSE mapping_insert(size)

(***************************************************************************)
(* The heap: RAM words plus the fields of control_t.  A heap value is      *)
(*   [mem, null, fl_bitmap, sl_bitmap, blocks, fault]                      *)
(* null holds the four fields of control->block_null by byte offset.       *)
(* fault records an access outside the modelled RAM or outside the arrays  *)
(* of control_t (undefined behaviour in C).                                *)
(***************************************************************************)
\* *(word* )(p + off)
Get(h, p, off) ==
    IF p = NullBlock THEN h.null[off]
    ELSE IF (p + off) \in DOMAIN h.mem THEN h.mem[p + off]
    ELSE 0

\* *(word* )(p + off) = v
Set(h, p, off, v) ==
    IF p = NullBlock THEN [h EXCEPT !.null[off] = v]
    ELSE IF (p + off) \in DOMAIN h.mem THEN [h EXCEPT !.mem[p + off] = v]
    ELSE [h EXCEPT !.fault = TRUE]

\* fl, sl index control->sl_bitmap and control->blocks within their bounds
IndexOk(fl, sl) == fl \in 0..(FL_INDEX_COUNT - 1) /\ sl \in 0..(SL_INDEX_COUNT - 1)

(***************************************************************************)
(* block_header_t member functions                                         *)
(***************************************************************************)
block_size(h, block) == SizeBits(Get(h, block, off_size))

block_set_size(h, block, size) ==
    LET oldsize == Get(h, block, off_size)
    IN Set(h, block, off_size, SizeBits(size) + Or2(FlagBits(size), FlagBits(oldsize)))

block_is_last(h, block) == block_size(h, block) = 0

block_is_free(h, block) == FreeBit(Get(h, block, off_size)) = 1

block_set_free(h, block) ==
    LET w == Get(h, block, off_size) IN Set(h, block, off_size, w + (1 - FreeBit(w)))

block_set_used(h, block) ==
    LET w == Get(h, block, off_size) IN Set(h, block, off_size, w - FreeBit(w))

block_is_prev_free(h, block) == PrevFreeBit(Get(h, block, off_size)) = 1

block_set_prev_free(h, block) ==
    LET w == Get(h, block, off_size) IN Set(h, block, off_size, w + 2 * (1 - PrevFreeBit(w)))

block_set_prev_used(h, block) ==
    LET w == Get(h, block, off_size) IN Set(h, block, off_size, w - 2 * PrevFreeBit(w))

block_from_ptr(ptr) == ptr - block_start_offset

block_to_ptr(block) == block + block_start_offset

offset_to_block(ptr, size) == ptr + size

block_prev(h, block) == Get(h, block, off_prev_phys_block)

block_next(h, block) ==
    offset_to_block(block_to_ptr(block), block_size(h, block) - block_header_overhead)

\* the heap after next->prev_phys_block = block; the neighbour itself is block_next(h, block)
block_link_next(h, block) == Set(h, block_next(h, block), off_prev_phys_block, block)

block_mark_as_free(h, block) ==
    LET next == block_next(h, block)
        h1 == block_link_next(h, block)
        h2 == block_set_prev_free(h1, next)
    IN block_set_free(h2, block)

block_mark_as_used(h, block) ==
    LET next == block_next(h, block)
        h1 == block_set_prev_used(h, next)
    IN block_set_used(h1, block)

(***************************************************************************)
(* Free lists                                                              *)
(***************************************************************************)
\* fl, sl as found by mapping_search and the two bitmaps; oob is the word the
\* build reads from control->blocks[fl][..] when fl is past the array
search_suitable_block(h, fl0, sl0, oob) ==
    IF ~IndexOk(fl0, sl0)
    THEN [block |-> oob, fl |-> fl0, sl |-> sl0]
    ELSE LET sl_map0 == h.sl_bitmap[fl0] \cap ShlOnes(sl0)
             fl_map == h.fl_bitmap \cap ShlOnes(fl0 + 1)
         IN IF sl_map0 = {}
            THEN IF fl_map = {}
                 THEN [block |-> 0, fl |-> fl0, sl |-> sl0]
                 ELSE LET fl == tlsf_ffs(fl_map)
                          sl == tlsf_ffs(h.sl_bitmap[fl])
                      IN [block |-> h.blocks[fl][sl], fl |-> fl, sl |-> sl]
            ELSE LET sl == tlsf_ffs(sl_map0)
                 IN [block |-> h.blocks[fl0][sl], fl |-> fl0, sl |-> sl]

remove_free_block(h, block, fl, sl) ==
    LET prev == Get(h, block, off_prev_free)
        next == Get(h, block, off_next_free)
        h1 == Set(h, next, off_prev_free, prev)
        h2 == Set(h1, prev, off_next_free, next)
    IN IF ~IndexOk(fl, sl)
       THEN [h2 EXCEPT !.fault = TRUE]
       ELSE IF h2.blocks[fl][sl] = block
            THEN LET h3 == [h2 EXCEPT !.blocks[fl][sl] = next]
                 IN IF next = NullBlock
                    THEN LET h4 == [h3 EXCEPT !.sl_bitmap[fl] = @ \ {sl}]
                         IN IF h4.sl_bitmap[fl] = {}
                            THEN [h4 EXCEPT !.fl_bitmap = @ \ {fl}]
                            ELSE h4
                    ELSE h3
            ELSE h2

insert_free_block(h, block, fl, sl) ==
    IF ~IndexOk(fl, sl)
    THEN [h EXCEPT !.fault = TRUE]
    ELSE LET current == h.blocks[fl][sl]
             h1 == Set(h, block, off_next_free, current)
             h2 == Set(h1, block, off_prev_free, NullBlock)
             h3 == Set(h2, current, off_prev_free, block)
         IN [h3 EXCEPT !.blocks[fl][sl] = block,
                       !.fl_bitmap = @ \cup {fl},
                       !.sl_bitmap[fl] = @ \cup {sl}]

block_remove(h, block) ==
    LET m == mapping_insert(block_size(h, block))
    IN remove_free_block(h, block, m.fl, m.sl)

block_insert(h, block) ==
    LET m == mapping_insert(block_size(h, block))
    IN insert_free_block(h, block, m.fl, m.sl)

\* block_insert(block) where r = [h, block] is the heap and the block a merge left
block_insert_in(r) == block_insert(r.h, r.block)

(***************************************************************************)
(* Split, absorb, merge, trim                                              *)
(***************************************************************************)
block_can_split(h, block, size) == block_size(h, block) >= sizeof_block_header_t + size

\* address of the block that block_split(block, size) creates
split_remaining(block, size) ==
    offset_to_block(block_to_ptr(block), size - block_header_overhead)

block_split(h, block, size) ==
    LET remaining == split_remaining(block, size)
        remain_size == block_size(h, block) - (size + block_header_overhead)
        h1 == block_set_size(h, remaining, remain_size)
        h2 == block_set_size(h1, block, size)
    IN block_mark_as_free(h2, remaining)

block_absorb(h, prev, block) ==
    LET h1 == Set(h, prev, off_size,
                  Get(h, prev, off_size) + block_size(h, block) + block_header_overhead)
    IN block_link_next(h1, prev)

block_merge_prev(h, block) ==
    IF block_is_prev_free(h, block)
    THEN LET prev == block_prev(h, block)
             h1 == block_remove(h, prev)
         IN [h |-> block_absorb(h1, prev, block), block |-> prev]
    ELSE [h |-> h, block |-> block]

block_merge_next(h, block) ==
    LET next == block_next(h, block)
    IN IF block_is_free(h, next)
       THEN LET h1 == block_remove(h, next)
            IN [h |-> block_absorb(h1, block, next), block |-> block]
       ELSE [h |-> h, block |-> block]

\* block_merge_next(block) where r = [h, block] is the heap and the block that
\* block_merge_prev left
block_merge_next_in(r) == block_merge_next(r.h, r.block)

block_trim_free(h, block, size) ==
    IF block_can_split(h, block, size)
    THEN LET remaining_block == split_remaining(block, size)
             h1 == block_split(h, block, size)
             h2 == block_link_next(h1, block)
             h3 == block_set_prev_free(h2, remaining_block)
         IN block_insert(h3, remaining_block)
    ELSE h

block_trim_used(h, block, size) ==
    IF block_can_split(h, block, size)
    THEN LET remaining_block == split_remaining(block, size)
             h1 == block_split(h, block, size)
             h2 == block_set_prev_used(h1, remaining_block)
         IN block_insert_in(block_merge_next(h2, remaining_block))
    ELSE h

block_trim_free_leading(h, block, size) ==
    IF block_can_split(h, block, size)
    THEN LET remaining_block == split_remaining(block, size - block_header_overhead)
             h1 == block_split(h, block, size - block_header_overhead)
             h2 == block_set_prev_free(h1, remaining_block)
             h3 == block_link_next(h2, block)
         IN [h |-> block_insert(h3, block), block |-> remaining_block]
    ELSE [h |-> h, block |-> block]

\* the second half of block_locate_free: r = [block, fl, sl] is what
\* search_suitable_block found
block_locate_free_found(h, r) ==
    IF r.block # 0
    THEN [h |-> remove_free_block(h, r.block, r.fl, r.sl), block |-> r.block]
    ELSE [h |-> h, block |-> 0]

block_locate_free(h, size, oob) ==
    IF size # 0
    THEN LET m == mapping_search(size)
         IN block_locate_free_found(h, search_suitable_block(h, m.fl, m.sl, oob))
    ELSE [h |-> h, block |-> 0]

block_prepare_used(h, block, size) ==
    IF block # 0
    THEN LET h1 == block_trim_free(h, block, size)
         IN [h |-> block_mark_as_used(h1, block), p |-> block_to_ptr(block)]
    ELSE [h |-> h, p |-> 0]

\* block_prepare_used(block, size) where r = [h, block] is the heap and the
\* block that block_locate_free or block_trim_free_leading left
block_prepare_used_in(r, size) == block_prepare_used(r.h, r.block, size)

(***************************************************************************)
(* Pool lifecycle                                                          *)
(***************************************************************************)
control_construct(h) ==
    [h EXCEPT !.null = [@ EXCEPT ![off_next_free] = NullBlock, ![off_prev_free] = NullBlock],
              !.fl_bitmap = {},
              !.sl_bitmap = [i \in 0..(FL_INDEX_COUNT - 1) |-> {}],
              !.blocks = [i \in 0..(FL_INDEX_COUNT - 1) |->
                             [j \in 0..(SL_INDEX_COUNT - 1) |-> NullBlock]]]

\* The result is [h, ret].  bytes - pool_overhead is computed on size_t, so it
\* wraps for bytes < pool_overhead; pool_words is align_down of that difference
\* in units of ALIGN_SIZE, which keeps the wrapped value within the integers.
tlsf_add_pool(h, mem, bytes) ==
    LET pool_overhead == 2 * block_header_overhead
        pool_words == ((bytes - pool_overhead) \div ALIGN_SIZE)
                          % Pow2(size_t_bits - ALIGN_SIZE_LOG2)
        pool_bytes == ALIGN_SIZE * pool_words
        block == offset_to_block(mem, 0 - block_header_overhead)
    IN IF mem % ALIGN_SIZE # 0
       THEN [h |-> h, ret |-> 0]
       ELSE IF \/ pool_words < block_size_min \div ALIGN_SIZE
               \/ pool_words > block_size_max \div ALIGN_SIZE
            THEN [h |-> h, ret |-> 0]
            ELSE LET h1 == block_set_size(h, block, pool_bytes)
                     h2 == block_set_free(h1, block)
                     h3 == block_set_prev_used(h2, block)
                     h4 == block_insert(h3, block)
                     next == block_next(h4, block)
                     h5 == block_link_next(h4, block)
                     h6 == block_set_size(h5, next, 0)
                     h7 == block_set_used(h6, next)
                     h8 == block_set_prev_free(h7, next)
                 IN [h |-> h8, ret |-> 1]

\* The result is [h, control]: the heap and the static pointer after the call.
\* The control structure of this model lives at NullBlock, so an aligned mem
\* is NullBlock.
tlsf_create_mut(h, ctl, mem) ==
    [h |-> control_construct(h), control |-> mem]
tlsf_create(h, ctl, mem) ==
    IF mem % ALIGN_SIZE # 0
    THEN [h |-> h, control |-> ctl]
    ELSE [h |-> control_construct(h), control |-> mem]


(***************************************************************************)
(* Main interface.  Each returns [h, p]: the heap after the call and the   *)
(* returned pointer (0 is the null pointer).                               *)
(***************************************************************************)
tlsf_malloc(h, size, oob) ==
    LET adjust == adjust_request_size(size, ALIGN_SIZE)
    IN block_prepare_used_in(block_locate_free(h, adjust, oob), adjust)

\* tlsf_memalign from "if (block)" on: r = [h, block] is the heap and the block
\* that block_locate_free left
tlsf_memalign_found(r, align, adjust) ==
    IF r.block # 0
    THEN LET gap_minimum == sizeof_block_header_t
             ptr == block_to_ptr(r.block)
             aligned0 == align_ptr(ptr, align)
             gap0 == aligned0 - ptr
             aligned == IF gap0 # 0 /\ gap0 < gap_minimum
                        THEN align_ptr(aligned0 + Max(gap_minimum - gap0, align), align)
                        ELSE aligned0
             gap == aligned - ptr
         IN block_prepare_used_in(IF gap # 0
                                  THEN block_trim_free_leading(r.h, r.block, gap)
                                  ELSE r,
                                  adjust)
    ELSE block_prepare_used_in(r, adjust)

tlsf_memalign(h, align, size, oob) ==
    LET adjust == adjust_request_size(size, ALIGN_SIZE)
        gap_minimum == sizeof_block_header_t
        size_with_gap == adjust_request_size(adjust + align + gap_minimum, align)
        aligned_size == IF align <= ALIGN_SIZE THEN adjust ELSE size_with_gap
    IN tlsf_memalign_found(block_locate_free(h, aligned_size, oob), align, adjust)

tlsf_free(h, ptr) ==
    IF ptr # 0
    THEN LET block == block_from_ptr(ptr)
             h1 == block_mark_as_free(h, block)
         IN block_insert_in(block_merge_next_in(block_merge_prev(h1, block)))
    ELSE h

\* memcpy(dst, src, n) on little-endian words: whole words, then the low
\* n % 4 bytes of the last word; a range outside the RAM is a fault
memcpy(h, dst, src, n) ==
    LET words == (n + 3) \div 4
        inram == /\ dst % 4 = 0 /\ src % 4 = 0
                 /\ \A i \in 0..(Min(words, Cardinality(DOMAIN h.mem) + 1) - 1) :
                        (dst + 4 * i) \in DOMAIN h.mem /\ (src + 4 * i) \in DOMAIN h.mem
        copied(a) == LET k == Min(4, dst + n - a)
                         s == h.mem[a - dst + src]
                         d == h.mem[a]
                     IN IF k = 4 THEN s
                        ELSE (d - (d % Pow2(8 * k))) + (s % Pow2(8 * k))
    IN IF n = 0 THEN h
       ELSE IF ~inram THEN [h EXCEPT !.fault = TRUE]
       ELSE [h EXCEPT !.mem = [a \in DOMAIN h.mem |->
                                 IF a >= dst /\ a < dst + n THEN copied(a) ELSE h.mem[a]]]

\* a copy branch that gives the old block up when the new allocation fails
tlsf_realloc_copy_mut(r, ptr, minsize) ==
    IF r.p # 0
    THEN [h |-> tlsf_free(memcpy(r.h, r.p, ptr, minsize), ptr), p |-> r.p]
    ELSE [h |-> tlsf_free(r.h, ptr), p |-> 0]

\* the copy branch of tlsf_realloc after p = tlsf_malloc(size): r = [h, p] is
\* the heap and the pointer that tlsf_malloc left
tlsf_realloc_copy(r, ptr, minsize) ==
    IF r.p # 0
    THEN [h |-> tlsf_free(memcpy(r.h, r.p, ptr, minsize), ptr), p |-> r.p]
    ELSE [h |-> r.h, p |-> 0]

tlsf_realloc(h, ptr, size, oob) ==
    IF ptr # 0 /\ size = 0
    THEN [h |-> tlsf_free(h, ptr), p |-> 0]
    ELSE IF ptr = 0
    THEN tlsf_malloc(h, size, oob)
    ELSE LET block == block_from_ptr(ptr)
             next == block_next(h, block)
             cursize == block_size(h, block)
             combined == cursize + block_size(h, next) + block_header_overhead
             adjust == adjust_request_size(size, ALIGN_SIZE)
         IN IF adjust > cursize /\ (~block_is_free(h, next) \/ adjust > combined)
            THEN tlsf_realloc_copy(tlsf_malloc(h, size, oob), ptr, Min(cursize, size))
            ELSE LET h1 == IF adjust > cursize
                           THEN block_mark_as_used(block_merge_next(h, block).h, block)
                           ELSE h
                 IN [h |-> block_trim_used(h1, block, adjust), p |-> ptr]

(***************************************************************************)
(* State                                                                   *)
(***************************************************************************)
VARIABLES
    mem,         \* RAM: word address -> 32-bit word
    block_null,  \* control->block_null: field offset -> word
    fl_bitmap,   \* control->fl_bitmap
    sl_bitmap,   \* control->sl_bitmap[FL_INDEX_COUNT]
    blocks,      \* control->blocks[FL_INDEX_COUNT][SL_INDEX_COUNT]
    fault,       \* an access left the RAM or the arrays of control_t
    pools,       \* the (mem, bytes) pairs tlsf_add_pool accepted
    live,        \* pointers returned by the allocator and not yet freed
    op,          \* the last call: name, arguments, returned value
    valid,       \* every call so far had 0 < size < block_size_max (realloc: or 0)
    calls,       \* number of calls so far
    control,     \* the static pointer control: the address of the control structure
    irq_enabled, \* the interrupt-enable state of the core
    frames,      \* the main flow and, above it, the interrupt handlers that preempted it
    calc         \* the last application of a utility function: arguments and result

vars == <<mem, block_null, fl_bitmap, sl_bitmap, blocks, fault, pools, live, op, valid,
          calls, control, irq_enabled, frames, calc>>

Heap == [mem |-> mem, null |-> block_null, fl_bitmap |-> fl_bitmap,
         sl_bitmap |-> sl_bitmap, blocks |-> blocks, fault |-> fault]

SetHeap(h) ==
    /\ mem' = h.mem
    /\ block_null' = h.null
    /\ fl_bitmap' = h.fl_bitmap
    /\ sl_bitmap' = h.sl_bitmap
    /\ blocks' = h.blocks
    /\ fault' = h.fault

Call(name, align, size, ptr, ret) ==
    [name |-> name, align |-> align, size |-> size, ptr |-> ptr, ret |-> ret]

(***************************************************************************)
(* Inputs                                                                  *)
(***************************************************************************)
\* a request whose search index lies past control->blocks, and the first
\* request size that is refused
HugeSize == block_size_max - ALIGN_SIZE
Sizes == {0, 1, 13, 28, HugeSize, block_size_max}
Aligns == {2, 8}

Pool1 == [mem |-> ArenaBase, bytes |-> Pool1Bytes]
Pool2 == [mem |-> align_up(ArenaBase + Pool1Bytes, ALIGN_SIZE), bytes |-> Pool2Bytes]
PoolChoices == {Pool1, Pool2}

InRange(size) == 0 < size /\ size < block_size_max

\* the words a read past control->blocks can yield (the RAM behind the control
\* structure holds anything): null, a value that is no block address, a pointer
\* the client stored, the header address of a block in use
OobWords(size) ==
    IF size # 0 /\ ~IndexOk(mapping_search(size).fl, mapping_search(size).sl)
    THEN {0, ArenaBase + 2} \cup live \cup {block_from_ptr(p) : p \in live}
    ELSE {0}

\* what uninitialised RAM holds at address a: all zero, or a word with both
\* flag bits set whose four bytes differ from each other and from every other word
Junk(a) ==
    LET w == (a - ArenaBase) \div 4
    IN (3 + 4 * w) + 256 * (w + 1) + 65536 * (w + 2) + 16777216 * (w + 3)
Uninit == {"zero", "junk"}
RamWord(g, a) == IF g = "zero" THEN 0 ELSE Junk(a)

\* fn(size, align) yielded the indices fl, sl or the value ret
Applied(fn, size, align, fl, sl, ret) ==
    [fn |-> fn, size |-> size, align |-> align, fl |-> fl, sl |-> sl, ret |-> ret]

\* a flow that is outside the wrappers; saved is the interrupt-enable state of
\* the flow it preempted
Idle(saved) == [fn |-> "none", pc |-> "idle", old_state |-> FALSE, entry |-> FALSE,
                saved |-> saved]

(***************************************************************************)
(* Init: the state after tlsf_create(NullBlock) on uninitialised RAM       *)
(***************************************************************************)
Init ==
    \E g \in Uninit :
        LET raw == [mem |-> [a \in WordAddrs |-> RamWord(g, a)],
                    null |-> [o \in {off_prev_phys_block, off_size, off_next_free, off_prev_free} |->
                                RamWord(g, ArenaBase)],
                    fl_bitmap |-> {}, sl_bitmap |-> <<>>, blocks |-> <<>>, fault |-> FALSE]
            h == control_construct(raw)
        IN /\ mem = h.mem
           /\ block_null = h.null
           /\ fl_bitmap = h.fl_bitmap
           /\ sl_bitmap = h.sl_bitmap
           /\ blocks = h.blocks
           /\ fault = h.fault
           /\ pools = {}
           /\ live = {}
           /\ op = Call("tlsf_create", 0, 0, NullBlock, 0)
           /\ valid = TRUE
           /\ calls = 0
           /\ control = NullBlock
           /\ irq_enabled = TRUE
           /\ frames = <<Idle(TRUE)>>
           /\ calc = Applied("none", 0, 0, 0, 0, 0)

(***************************************************************************)
(* Actions: one per public operation                                       *)
(***************************************************************************)
\* a run ends at the first access outside the RAM, after the first call outside
\* the size contract, and after MaxCalls calls
Running == valid /\ ~fault /\ calls < MaxCalls

\* the caller's view after tlsf_add_pool returned r = [h, ret]
Added(r, pool) ==
    /\ SetHeap(r.h)
    /\ pools' = IF r.ret # 0 THEN pools \cup {pool} ELSE pools
    /\ op' = Call("tlsf_add_pool", 0, pool.bytes, pool.mem, r.ret)

\* the caller's view after an allocating call returned r = [h, p]; ptr is the
\* pointer handed to tlsf_realloc, 0 for the other calls
Returned(r, name, align, size, ptr) ==
    /\ SetHeap(r.h)
    /\ live' = IF r.p # 0 THEN (live \ {ptr}) \cup {r.p}
               ELSE IF size = 0 THEN live \ {ptr} ELSE live
    /\ op' = Call(name, align, size, ptr, r.p)

AddPool(pool) ==
    /\ Running
    /\ pool \notin pools
    /\ Added(tlsf_add_pool(Heap, pool.mem, pool.bytes), pool)
    /\ calls' = calls + 1
    /\ UNCHANGED <<live, valid, control, irq_enabled, frames, calc>>

Malloc(size) ==
    /\ Running
    /\ \E oob \in OobWords(adjust_request_size(size, ALIGN_SIZE)) :
         Returned(tlsf_malloc(Heap, size, oob), "tlsf_malloc", 0, size, 0)
    /\ valid' = (valid /\ InRange(size))
    /\ calls' = calls + 1
    /\ UNCHANGED <<pools, control, irq_enabled, frames, calc>>

Memalign(align, size) ==
    /\ Running
    /\ LET adjust == adjust_request_size(size, ALIGN_SIZE)
           aligned_size == IF align <= ALIGN_SIZE THEN adjust
                           ELSE adjust_request_size(adjust + align + sizeof_block_header_t, align)
       IN \E oob \in OobWords(aligned_size) :
            Returned(tlsf_memalign(Heap, align, size, oob), "tlsf_memalign", align, size, 0)
    /\ valid' = (valid /\ InRange(size))
    /\ calls' = calls + 1
    /\ UNCHANGED <<pools, control, irq_enabled, frames, calc>>

Realloc(ptr, size) ==
    /\ Running
    /\ \E oob \in OobWords(adjust_request_size(size, ALIGN_SIZE)) :
         Returned(tlsf_realloc(Heap, ptr, size, oob), "tlsf_realloc", 0, size, ptr)
    /\ valid' = (valid /\ (InRange(size) \/ (size = 0 /\ ptr # 0)))
    /\ calls' = calls + 1
    /\ UNCHANGED <<pools, control, irq_enabled, frames, calc>>

Free(ptr) ==
    /\ Running
    /\ SetHeap(tlsf_free(Heap, ptr))
    /\ live' = live \ {ptr}
    /\ op' = Call("tlsf_free", 0, 0, ptr, 0)
    /\ calls' = calls + 1
    /\ UNCHANGED <<pools, valid, control, irq_enabled, frames, calc>>

Next ==
    \/ \E pool \in PoolChoices : AddPool(pool)
    \/ \E size \in Sizes : Malloc(size)
    \/ \E align \in Aligns, size \in Sizes : Memalign(align, size)
    \/ \E ptr \in live \cup {0}, size \in Sizes : Realloc(ptr, size)
    \/ \E ptr \in live \cup {0} : Free(ptr)

Spec == Init /\ [][Next]_vars

(***************************************************************************)
(* Pool creation with arguments the code rejects                           *)
(***************************************************************************)
\* memory for the control structure: the address in use, and a misaligned one
CreateArgs == {NullBlock, NullBlock + 2}

\* pool sizes outside the accepted range: below pool_overhead, where
\* bytes - pool_overhead wraps; a usable size below block_size_min; a usable
\* size above block_size_max
BadBytes == {0, 2 * block_header_overhead - 1,
             2 * block_header_overhead + block_size_min - 1,
             2 * block_header_overhead + block_size_max + ALIGN_SIZE}
PoolArgs ==
    PoolChoices
        \cup {[mem |-> ArenaBase, bytes |-> b] : b \in BadBytes}
        \cup {[mem |-> ArenaBase + 2, bytes |-> Pool1Bytes]}

\* the caller's view after tlsf_create returned r = [h, control]: a control
\* structure that was constructed anew knows no pool and no allocation
Created(r, at) ==
    /\ SetHeap(r.h)
    /\ control' = r.control
    /\ pools' = IF at % ALIGN_SIZE # 0 THEN pools ELSE {}
    /\ live' = IF at % ALIGN_SIZE # 0 THEN live ELSE {}
    /\ op' = Call("tlsf_create", 0, 0, at, 0)

Create(at) ==
    /\ Running
    /\ Created(tlsf_create(Heap, control, at), at)
    /\ calls' = calls + 1
    /\ UNCHANGED <<valid, irq_enabled, frames, calc>>

NextPools ==
    \/ \E at \in CreateArgs : Create(at)
    \/ \E pool \in PoolArgs : AddPool(pool)
    \/ \E size \in {n \in Sizes : InRange(n) /\ n # HugeSize} : Malloc(size)
    \/ \E ptr \in live : Free(ptr)

SpecPools == Init /\ [][NextPools]_vars

(***************************************************************************)
(* Views of the heap used by the properties                                *)
(***************************************************************************)
\* the walk of tlsf_walk_pool: the blocks from block up to and including the
\* first zero-size block, at most fuel of them
RECURSIVE Walk(_, _, _)
Walk(h, block, fuel) ==
    IF fuel = 0 THEN <<>>
    ELSE IF block_is_last(h, block) THEN <<block>>
    ELSE <<block>> \o Walk(h, block_next(h, block), fuel - 1)

WalkFuel == Cardinality(WordAddrs)

\* the first block of a pool
PoolFirst(pool) == offset_to_block(pool.mem, 0 - block_header_overhead)

\* the physical chain of a pool, sentinel included
Chain(h, pool) == Walk(h, PoolFirst(pool), WalkFuel)

\* the free list of a bucket, from its head along next_free to block_null
RECURSIVE ListFrom(_, _, _)
ListFrom(h, block, fuel) ==
    IF fuel = 0 \/ block = NullBlock THEN <<>>
    ELSE <<block>> \o ListFrom(h, Get(h, block, off_next_free), fuel - 1)

FreeList(h, fl, sl) == ListFrom(h, h.blocks[fl][sl], WalkFuel)

Buckets == (0..(FL_INDEX_COUNT - 1)) \X (0..(SL_INDEX_COUNT - 1))

\* how often block occurs in the free list of bucket <<fl, sl>>
Occurrences(h, block, fl, sl) ==
    Cardinality({i \in DOMAIN FreeList(h, fl, sl) : FreeList(h, fl, sl)[i] = block})

\* the payload of the allocation at ptr is [ptr, PayloadEnd(h, ptr))
PayloadEnd(h, ptr) == ptr + block_size(h, block_from_ptr(ptr))

InOnePool(lo, hi) == \E pool \in pools : pool.mem <= lo /\ hi <= pool.mem + pool.bytes

Allocating == {"tlsf_malloc", "tlsf_memalign", "tlsf_realloc"}

\* byte at address a of a little-endian RAM (0 outside the RAM)
ByteAt(h, a) ==
    LET w == a - (a % 4)
    IN IF w \in DOMAIN h.mem THEN (h.mem[w] \div Pow2(8 * (a % 4))) % 256 ELSE 0

\* address a lies in a block of some pool's chain that is marked free
InFreeBlock(h, a) ==
    \E pool \in pools :
        \E i \in DOMAIN Chain(h, pool) :
            LET b == Chain(h, pool)[i]
            IN block_is_free(h, b) /\ b <= a /\ a < block_next(h, b)

\* the call recorded in op' was made on a live pointer (realloc only)
OnLive == op'.name = "tlsf_realloc" => op'.ptr \in live

(***************************************************************************)
(* Properties                                                              *)
(***************************************************************************)

\* C1: under valid calls the payload ranges [p, p + block_size(p)) of distinct
\* live allocations are disjoint and each lies inside one added pool.
C1_LiveAllocationsDisjoint ==
    valid =>
        \A p \in live :
            /\ InOnePool(p, PayloadEnd(Heap, p))
            /\ \A q \in live \ {p} :
                   PayloadEnd(Heap, p) <= q \/ PayloadEnd(Heap, q) <= p

\* C2: a non-null pointer returned by malloc, memalign or realloc, for every
\* request size, designates a block marked used of payload size >= the request.
C2_ReturnedBlockFits ==
    (op.name \in Allocating /\ op.ret # 0) =>
        /\ ~block_is_free(Heap, block_from_ptr(op.ret))
        /\ block_size(Heap, block_from_ptr(op.ret)) >= op.size

\* C3: every non-null returned pointer is a multiple of ALIGN_SIZE, and one
\* returned by memalign(a, n) is a multiple of a.
C3_ReturnedPointerAligned ==
    (op.name \in Allocating /\ op.ret # 0) =>
        /\ op.ret % ALIGN_SIZE = 0
        /\ op.name = "tlsf_memalign" => op.ret % op.align = 0

\* C4: a request of block_size_max bytes or more returns null and leaves the
\* allocator state unchanged; after realloc the block at p is still used.
C4_TooLargeRefused ==
    [][(op'.name \in Allocating /\ op'.size >= block_size_max /\ OnLive) =>
           /\ op'.ret = 0
           /\ Heap' = Heap
           /\ op'.name = "tlsf_realloc" => ~block_is_free(Heap', block_from_ptr(op'.ptr))]_vars

\* C5: malloc(0) and memalign(a, 0), for every power-of-two a, return null and
\* leave the allocator state unchanged.
C5_ZeroRefused ==
    [][(op'.name \in {"tlsf_malloc", "tlsf_memalign"} /\ op'.size = 0) =>
           (op'.ret = 0 /\ Heap' = Heap)]_vars

\* C6: when malloc, memalign or realloc with 0 < n < block_size_max returns
\* null, the whole allocator state and RAM equal the state before the call; for
\* realloc the block at p remains used with unchanged size and contents.
C6_FailureLeavesState ==
    [][(op'.name \in Allocating /\ InRange(op'.size) /\ OnLive /\ op'.ret = 0) =>
           /\ Heap' = Heap
           /\ op'.name = "tlsf_realloc" =>
                  /\ ~block_is_free(Heap', block_from_ptr(op'.ptr))
                  /\ block_size(Heap', block_from_ptr(op'.ptr))
                         = block_size(Heap, block_from_ptr(op'.ptr))
                  /\ live' = live]_vars

\* C6 witness: a realloc of a live block that had to move and found no block
C6_Witness ==
    /\ op.name = "tlsf_realloc" /\ op.ret = 0 /\ op.ptr \in live
    /\ op.size = 28 /\ pools # {}
    /\ block_size(Heap, block_from_ptr(op.ptr)) < 28

\* C7: realloc(p, n) on a live p with 0 < n < block_size_max returns p exactly
\* when adjust <= cur, or next is free and adjust <= cur + size(next) +
\* overhead; realloc(p, block_size(p)) returns p and changes no state.
C7_ReallocInPlaceExactly ==
    [][(op'.name = "tlsf_realloc" /\ op'.ptr \in live /\ InRange(op'.size)) =>
           LET block == block_from_ptr(op'.ptr)
               cur == block_size(Heap, block)
               next == block_next(Heap, block)
               adjust == adjust_request_size(op'.size, ALIGN_SIZE)
               inplace == \/ adjust <= cur
                          \/ /\ block_is_free(Heap, next)
                             /\ adjust <= cur + block_size(Heap, next) + block_header_overhead
           IN /\ (op'.ret = op'.ptr) <=> inplace
              /\ op'.size = cur => (op'.ret = op'.ptr /\ Heap' = Heap)]_vars

\* C8: after a successful realloc(p, n) of a live p with 0 < n <
\* block_size_max returning q, the first min(old block_size(p), n) bytes at q
\* equal the bytes that were at p; if q # p the block that held p is free.
C8_ReallocKeepsData ==
    [][(op'.name = "tlsf_realloc" /\ op'.ptr \in live /\ InRange(op'.size) /\ op'.ret # 0) =>
           LET cur == block_size(Heap, block_from_ptr(op'.ptr))
               kept == Min(cur, op'.size)
           IN /\ \A i \in 0..(kept - 1) :
                      ByteAt(Heap', op'.ret + i) = ByteAt(Heap, op'.ptr + i)
              /\ op'.ret # op'.ptr => InFreeBlock(Heap', block_from_ptr(op'.ptr))]_vars

\* C9: under valid calls no pool's physical chain holds two consecutive blocks
\* that are both marked FREE.
C9_NoAdjacentFree ==
    valid =>
        \A pool \in pools :
            LET chain == Chain(Heap, pool)
            IN \A i \in 1..(Len(chain) - 1) :
                   ~(block_is_free(Heap, chain[i]) /\ block_is_free(Heap, chain[i + 1]))

\* C10: under valid calls, for every non-sentinel block b: b is FREE iff it
\* occurs exactly once in exactly one free list, the one mapping_insert names
\* for its size; PREV_FREE(next(b)) = FREE(b); and if b is free,
\* next(b).prev_phys_block = b.
C10_FlagTruth ==
    valid =>
        \A pool \in pools :
            LET chain == Chain(Heap, pool)
            IN \A i \in DOMAIN chain :
                   LET b == chain[i]
                       next == block_next(Heap, b)
                       m == mapping_insert(block_size(Heap, b))
                       inlists == {bk \in Buckets : Occurrences(Heap, b, bk[1], bk[2]) > 0}
                   IN ~block_is_last(Heap, b) =>
                          /\ block_is_free(Heap, b) <=>
                                 /\ inlists = {<<m.fl, m.sl>>}
                                 /\ Occurrences(Heap, b, m.fl, m.sl) = 1
                          /\ ~block_is_free(Heap, b) => inlists = {}
                          /\ block_is_prev_free(Heap, next) = block_is_free(Heap, b)
                          /\ block_is_free(Heap, b) => block_prev(Heap, next) = b

\* C11: under valid calls, for all fl < FL_INDEX_COUNT and sl < SL_INDEX_COUNT:
\* bit sl of sl_bitmap[fl] is set iff blocks[fl][sl] is not &block_null, and
\* bit fl of fl_bitmap is set iff sl_bitmap[fl] is non-zero.
C11_BitmapsMatchHeads ==
    valid =>
        \A fl \in 0..(FL_INDEX_COUNT - 1) :
            /\ \A sl \in 0..(SL_INDEX_COUNT - 1) :
                   (sl \in sl_bitmap[fl]) <=> (blocks[fl][sl] # NullBlock)
            /\ (fl \in fl_bitmap) <=> (sl_bitmap[fl] # {})

\* usable bytes of a pool: pool_bytes of tlsf_add_pool
Usable(pool) == align_down(pool.bytes - 2 * block_header_overhead, ALIGN_SIZE)

\* sum of block_size(b) + header_overhead over the first n blocks of a chain
RECURSIVE ChainBytes(_, _, _)
ChainBytes(h, chain, n) ==
    IF n = 0 THEN 0
    ELSE block_size(h, chain[n]) + block_header_overhead + ChainBytes(h, chain, n - 1)

\* C12: under valid calls the non-sentinel blocks of each pool tile it: the walk
\* by next(b) reaches the sentinel inside the pool, every non-sentinel size is a
\* multiple of ALIGN_SIZE and at least block_size_min, and the sizes plus
\* headers add up to usable + header_overhead.
C12_BlocksTilePool ==
    valid =>
        \A pool \in pools :
            LET chain == Chain(Heap, pool)
                n == Len(chain) - 1
            IN /\ block_is_last(Heap, chain[n + 1])
               /\ \A i \in 1..n :
                      /\ block_size(Heap, chain[i]) % ALIGN_SIZE = 0
                      /\ block_size(Heap, chain[i]) >= block_size_min
                      /\ block_next(Heap, chain[i]) <= pool.mem + Usable(pool)
               /\ ChainBytes(Heap, chain, n) = Usable(pool) + block_header_overhead

\* what the allocator holds: block boundaries and flags of every pool, both
\* bitmaps, every free list in link order, and the links of block_null
AllocatorState(h) ==
    [chains |-> [pool \in pools |->
                   [i \in DOMAIN Chain(h, pool) |->
                      <<Chain(h, pool)[i], Get(h, Chain(h, pool)[i], off_size)>>]],
     fl_bitmap |-> h.fl_bitmap,
     sl_bitmap |-> h.sl_bitmap,
     lists |-> [bk \in Buckets |-> FreeList(h, bk[1], bk[2])],
     null_next_free |-> h.null[off_next_free],
     null_prev_free |-> h.null[off_prev_free]]

\* r = [h, p] is what tlsf_malloc returned on the current heap: if p is
\* non-null, tlsf_free(p) brings the allocator state back
FreeRestores(r) ==
    r.p # 0 => AllocatorState(tlsf_free(r.h, r.p)) = AllocatorState(Heap)

\* C13: in every state reached by valid calls, for every n with 0 < n <
\* block_size_max for which p = tlsf_malloc(n) is non-null, tlsf_free(p) right
\* after restores block boundaries, flags, bitmaps, free lists in link order
\* and the links of block_null.
C13_MallocFreeRoundTrip ==
    (valid /\ ~fault) =>
        \A size \in {n \in Sizes : InRange(n)} :
            \A oob \in OobWords(adjust_request_size(size, ALIGN_SIZE)) :
                FreeRestores(tlsf_malloc(Heap, size, oob))

\* pool is as tlsf_add_pool left it: one free block of size usable, then the
\* sentinel, the block being once in the free list of its size
Fresh(h, pool) ==
    LET first == PoolFirst(pool)
        m == mapping_insert(Usable(pool))
    IN /\ Chain(h, pool) = <<first, first + Usable(pool) + block_header_overhead>>
       /\ Get(h, first, off_size) = Usable(pool) + 1
       /\ Occurrences(h, first, m.fl, m.sl) = 1

\* every pool is fresh and the free lists hold nothing but the pools' blocks
AllFresh(h) ==
    /\ \A pool \in pools : Fresh(h, pool)
    /\ \A bk \in Buckets :
           \A i \in DOMAIN FreeList(h, bk[1], bk[2]) :
               \E pool \in pools : FreeList(h, bk[1], bk[2])[i] = PoolFirst(pool)

\* C14: after valid calls, whenever every live allocation has been freed, each
\* pool is again one free block of its initial size followed by its sentinel,
\* and that block is the only entry of the free index for the pool.  Stated for
\* the state with no live allocation and for the tlsf_free of the last one.
C14_AllFreedIsFresh ==
    valid =>
        /\ live = {} => AllFresh(Heap)
        /\ \A p \in live : live = {p} => AllFresh(tlsf_free(Heap, p))

\* the operations whose declaration has a return value; tlsf_create and
\* tlsf_free are declared void
HasResult(name) == name \in {"tlsf_add_pool", "tlsf_malloc", "tlsf_memalign", "tlsf_realloc"}

\* the arguments of tlsf_add_pool the allocator must refuse
RejectedPool(at, bytes) ==
    \/ at % ALIGN_SIZE # 0
    \/ bytes < 2 * block_header_overhead
    \/ align_down(bytes - 2 * block_header_overhead, ALIGN_SIZE) < block_size_min
    \/ align_down(bytes - 2 * block_header_overhead, ALIGN_SIZE) > block_size_max

\* the last call was a tlsf_add_pool or a tlsf_create the allocator must refuse
RejectedCreation(o) ==
    \/ o.name = "tlsf_add_pool" /\ RejectedPool(o.ptr, o.size)
    \/ o.name = "tlsf_create" /\ o.ptr % ALIGN_SIZE # 0

CreationLeavesState == Heap' = Heap /\ pools' = pools /\ control' = control /\ live' = live

\* C15 as stated: a rejected tlsf_add_pool or tlsf_create reports the failure
\* by a returned zero and changes neither the control pointer, the bitmaps,
\* the free lists nor any existing pool.
C15_RejectedCreationReturnsZero ==
    [][(calls' = calls + 1 /\ RejectedCreation(op')) =>
           /\ HasResult(op'.name) /\ op'.ret = 0
           /\ CreationLeavesState]_vars

\* C15 amended: a rejected tlsf_add_pool returns zero, a rejected tlsf_create
\* returns nothing, being void, and either call changes neither the control
\* pointer, the bitmaps, the free lists nor any existing pool.
C15_RejectedCreationLeavesState ==
    [][(calls' = calls + 1 /\ RejectedCreation(op')) =>
           /\ HasResult(op'.name) => op'.ret = 0
           /\ CreationLeavesState]_vars

\* a tlsf_add_pool whose size lies below pool_overhead was refused while a
\* pool and a live allocation exist
C15_Witness ==
    /\ op.name = "tlsf_add_pool"
    /\ op.size < 2 * block_header_overhead
    /\ op.ret = 0
    /\ pools # {}
    /\ live # {}

(***************************************************************************)
(* The wrappers of tlsf-malloc.c on one core with interrupts               *)
(***************************************************************************)
\* how many interrupt handlers can be nested above the main flow
MaxNesting == 2

Wrappers == {"malloc", "calloc", "memalign", "realloc", "free"}

\* irq_disable: interrupts are off afterwards, the state before is returned
irq_disable(enabled) == [enabled |-> FALSE, ret |-> enabled]
\* irq_restore: the interrupt-enable state becomes the one passed in
irq_restore(state) == state

\* the first statement of a wrapper
wrapper_entry_mut(fn) == "call"
wrapper_entry(fn) == "disable"

\* the statement that follows pc in wrapper fn; result is what the core
\* operation returned
wrapper_next(fn, pc, result) ==
    CASE pc = "disable" -> "call"
      [] pc = "call" -> "core"
      [] pc = "core" -> IF fn = "calloc" /\ result # 0 THEN "memset" ELSE "restore"
      [] pc = "memset" -> "restore"
      [] pc = "restore" -> "return"
      [] pc = "return" -> "idle"

heapvars == <<mem, block_null, fl_bitmap, sl_bitmap, blocks, fault, pools, live, op, valid,
              calls, control>>

Top == frames[Len(frames)]
SetTop(f) == frames' = [frames EXCEPT ![Len(frames)] = f]
At(pc) == Top.pc = pc
Step(result) == [Top EXCEPT !.pc = wrapper_next(Top.fn, Top.pc, result)]

\* the running flow calls wrapper fn
CallWrapper(fn) ==
    /\ At("idle")
    /\ SetTop([Top EXCEPT !.fn = fn, !.pc = wrapper_entry(fn), !.entry = irq_enabled])
    /\ UNCHANGED <<irq_enabled, heapvars, calc>>

\* unsigned old_state = irq_disable();
IrqDisable ==
    /\ At("disable")
    /\ irq_enabled' = irq_disable(irq_enabled).enabled
    /\ SetTop([Step(0) EXCEPT !.old_state = irq_disable(irq_enabled).ret])
    /\ UNCHANGED <<heapvars, calc>>

\* the core operation starts
CoreStart ==
    /\ At("call")
    /\ SetTop(Step(0))
    /\ UNCHANGED <<irq_enabled, heapvars, calc>>

\* the core operation returns result: null or a pointer
CoreFinish(result) ==
    /\ At("core")
    /\ SetTop(Step(result))
    /\ UNCHANGED <<irq_enabled, heapvars, calc>>

\* memset(result, 0, count * bytes) of calloc
Memset ==
    /\ At("memset")
    /\ SetTop(Step(0))
    /\ UNCHANGED <<irq_enabled, heapvars, calc>>

\* irq_restore(old_state);
IrqRestore ==
    /\ At("restore")
    /\ irq_enabled' = irq_restore(Top.old_state)
    /\ SetTop(Step(0))
    /\ UNCHANGED <<heapvars, calc>>

\* the wrapper returns to the flow that called it
Return ==
    /\ At("return")
    /\ SetTop([Step(0) EXCEPT !.fn = "none"])
    /\ UNCHANGED <<irq_enabled, heapvars, calc>>

\* code of the flow outside the wrappers switches interrupts on or off
SetIrq(enabled) ==
    /\ At("idle")
    /\ irq_enabled' = enabled
    /\ UNCHANGED <<frames, heapvars, calc>>

\* an interrupt preempts the running flow; the handler starts with interrupts
\* masked or, where handlers nest, still enabled
Interrupt(enabled) ==
    /\ irq_enabled
    /\ Len(frames) <= MaxNesting
    /\ frames' = Append(frames, Idle(irq_enabled))
    /\ irq_enabled' = enabled
    /\ UNCHANGED <<heapvars, calc>>

\* the handler returns; the preempted flow resumes in its interrupt-enable state
IrqReturn ==
    /\ Len(frames) > 1
    /\ At("idle")
    /\ irq_enabled' = Top.saved
    /\ frames' = SubSeq(frames, 1, Len(frames) - 1)
    /\ UNCHANGED <<heapvars, calc>>

NextIrq ==
    \/ \E fn \in Wrappers : CallWrapper(fn)
    \/ IrqDisable
    \/ CoreStart
    \/ \E result \in {0, 1} : CoreFinish(result)
    \/ Memset
    \/ IrqRestore
    \/ Return
    \/ \E enabled \in BOOLEAN : SetIrq(enabled)
    \/ \E enabled \in BOOLEAN : Interrupt(enabled)
    \/ IrqReturn

SpecIrq == Init /\ [][NextIrq]_vars

\* the interrupt-enable state flow i of the stack has, or had when it was preempted
IrqStateOf(i) == IF i = Len(frames) THEN irq_enabled ELSE frames[i + 1].saved

\* C16: no core operation is in progress in two flows at once, and a wrapper
\* that is about to return has the interrupt-enable state it was entered with,
\* also when it was entered with interrupts disabled.
C16_WrappersSerialise ==
    /\ Cardinality({i \in 1..Len(frames) : frames[i].pc = "core"}) <= 1
    /\ \A i \in 1..Len(frames) :
           frames[i].pc = "return" => IrqStateOf(i) = frames[i].entry

\* a handler that preempted the main flow inside a wrapper is about to return
\* from a wrapper it entered with interrupts disabled
C16_Witness ==
    /\ Len(frames) > 1
    /\ frames[1].fn \in Wrappers
    /\ Top.pc = "return"
    /\ ~Top.entry
    /\ ~irq_enabled

(***************************************************************************)
(* The utility functions applied to sizes around every bucket boundary     *)
(***************************************************************************)
\* requests up to MaxSmall and within MaxNear bytes of block_size_max
MaxSmall == 20
MaxNear == 5

\* the smallest size of every bucket of every first-level class
BucketMins ==
    {Pow2(k) + j * Pow2(k - SL_INDEX_COUNT_LOG2) :
        k \in FL_INDEX_SHIFT..(FL_INDEX_MAX - 1), j \in 0..(SL_INDEX_COUNT - 1)}

\* block sizes: multiples of ALIGN_SIZE from block_size_min to block_size_max,
\* at, just below and just above every bucket boundary
MapSizes ==
    {s \in {m + d : m \in BucketMins \cup {block_size_max}, d \in {0 - ALIGN_SIZE, 0, ALIGN_SIZE}} :
        block_size_min <= s /\ s <= block_size_max}

\* request sizes: the small ones, the ones around block_size_max, the bucket boundaries
RequestSizes ==
    (0..MaxSmall)
        \cup ((block_size_max - MaxNear)..(block_size_max + MaxNear))
        \cup BucketMins

\* the functions keep no state, so a behaviour applies one of them once
NotApplied == calc.fn = "none"

MappingInsert(size) ==
    /\ NotApplied
    /\ calc' = Applied("mapping_insert", size, 0,
                       mapping_insert(size).fl, mapping_insert(size).sl, 0)
    /\ UNCHANGED <<heapvars, irq_enabled, frames>>

MappingSearch(size) ==
    /\ NotApplied
    /\ calc' = Applied("mapping_search", size, 0,
                       mapping_search(size).fl, mapping_search(size).sl, 0)
    /\ UNCHANGED <<heapvars, irq_enabled, frames>>

AdjustRequestSize(size, align) ==
    /\ NotApplied
    /\ calc' = Applied("adjust_request_size", size, align, 0, 0,
                       adjust_request_size(size, align))
    /\ UNCHANGED <<heapvars, irq_enabled, frames>>

NextMap ==
    \/ \E size \in MapSizes : MappingInsert(size)
    \/ \E size \in MapSizes : MappingSearch(size)
    \/ \E size \in RequestSizes, align \in {ALIGN_SIZE} \cup Aligns : AdjustRequestSize(size, align)

SpecMap == Init /\ [][NextMap]_vars

\* bucket (fl1, sl1) is bucket (fl2, sl2) or comes before it in search order
BucketLeq(fl1, sl1, fl2, sl2) == fl1 < fl2 \/ (fl1 = fl2 /\ sl1 <= sl2)

\* C17: for a multiple r of ALIGN_SIZE with block_size_min <= r < block_size_max,
\* mapping_search(r) yields 0 <= fl < FL_INDEX_COUNT and 0 <= sl < SL_INDEX_COUNT,
\* and every block size that mapping_insert places in that bucket or in a later
\* one is at least r.
C17_SearchInBoundsAndFits ==
    (/\ calc.fn = "mapping_search"
     /\ calc.size % ALIGN_SIZE = 0
     /\ block_size_min <= calc.size
     /\ calc.size < block_size_max)
        => /\ IndexOk(calc.fl, calc.sl)
           /\ \A s \in MapSizes :
                  BucketLeq(calc.fl, calc.sl, mapping_insert(s).fl, mapping_insert(s).sl)
                      => s >= calc.size

\* C18: for a multiple s of ALIGN_SIZE with block_size_min <= s <= block_size_max,
\* mapping_insert(s) yields indices within bounds; fl = 0 and
\* sl = s / (SMALL_BLOCK_SIZE / SL_INDEX_COUNT) below SMALL_BLOCK_SIZE; from
\* SMALL_BLOCK_SIZE on the bucket whose range
\* [2^(fl+FL_INDEX_SHIFT-1) * (1 + sl/SL_INDEX_COUNT),
\*  2^(fl+FL_INDEX_SHIFT-1) * (1 + (sl+1)/SL_INDEX_COUNT)) holds s; and the
\* mapping is monotone in s.
C18_InsertInBoundsAndMonotone ==
    (/\ calc.fn = "mapping_insert"
     /\ calc.size % ALIGN_SIZE = 0
     /\ block_size_min <= calc.size
     /\ calc.size <= block_size_max)
        => /\ IndexOk(calc.fl, calc.sl)
           /\ calc.size < SMALL_BLOCK_SIZE =>
                  /\ calc.fl = 0
                  /\ calc.sl = calc.size \div (SMALL_BLOCK_SIZE \div SL_INDEX_COUNT)
           /\ calc.size >= SMALL_BLOCK_SIZE =>
                  /\ Pow2(calc.fl + FL_INDEX_SHIFT - 1 - SL_INDEX_COUNT_LOG2)
                         * (SL_INDEX_COUNT + calc.sl) <= calc.size
                  /\ calc.size - Pow2(calc.fl + FL_INDEX_SHIFT - 1 - SL_INDEX_COUNT_LOG2)
                                     * (SL_INDEX_COUNT + calc.sl)
                         < Pow2(calc.fl + FL_INDEX_SHIFT - 1 - SL_INDEX_COUNT_LOG2)
           /\ \A s \in MapSizes :
                  s >= calc.size =>
                      BucketLeq(calc.fl, calc.sl, mapping_insert(s).fl, mapping_insert(s).sl)

\* C19: adjust_request_size(n, ALIGN_SIZE) is 0 for n = 0 and for
\* n >= block_size_max; for every other n it is a multiple of ALIGN_SIZE that is
\* at least n, at least block_size_min and strictly less than block_size_max.
C19_AdjustedRequestInRange ==
    (calc.fn = "adjust_request_size" /\ calc.align = ALIGN_SIZE)
        => IF calc.size = 0 \/ calc.size >= block_size_max
           THEN calc.ret = 0
           ELSE /\ calc.ret % ALIGN_SIZE = 0
                /\ calc.ret >= calc.size
                /\ calc.ret >= block_size_min
                /\ calc.ret < block_size_max

\* the non-empty free lists a search from bucket (fl, sl) may take a block from:
\* the lists of fl from sl on, and every list of a larger first-level index
Wanted(h, fl, sl) ==
    {bk \in Buckets : /\ (bk[1] = fl /\ bk[2] >= sl) \/ bk[1] > fl
                      /\ h.blocks[bk[1]][bk[2]] # NullBlock}

\* the first of a non-empty set of buckets in search order
FirstBucket(S) == CHOOSE bk \in S : \A other \in S : BucketLeq(bk[1], bk[2], other[1], other[2])

\* r = [h, p] is what tlsf_malloc answers in heap h to a request the search maps to (fl, sl)
TakesFirst(h, fl, sl, r) ==
    IF Wanted(h, fl, sl) = {}
    THEN r.p = 0
    ELSE r.p = block_to_ptr(h.blocks[FirstBucket(Wanted(h, fl, sl))[1]]
                                    [FirstBucket(Wanted(h, fl, sl))[2]])

\* C20: for 0 < n < block_size_max and (fl, sl) = mapping_search(adjust_request_size(n)),
\* tlsf_malloc(n) returns null exactly when the lists blocks[fl][s], s >= sl, and
\* blocks[f][s], f > fl, are all empty; otherwise it takes the head of the first
\* non-empty one of them, going through s >= sl in fl and then through f > fl
\* with s from 0.
C20_MallocTakesFirstFit ==
    (valid /\ ~fault) =>
        \A size \in {n \in Sizes : InRange(n)} :
            \A oob \in OobWords(adjust_request_size(size, ALIGN_SIZE)) :
                TakesFirst(Heap,
                           mapping_search(adjust_request_size(size, ALIGN_SIZE)).fl,
                           mapping_search(adjust_request_size(size, ALIGN_SIZE)).sl,
                           tlsf_malloc(Heap, size, oob))

\* the gap tlsf_memalign leaves between the payload start ptr of the located
\* block and the aligned pointer
memalign_gap(ptr, align) ==
    LET gap_minimum == sizeof_block_header_t
        aligned == align_ptr(ptr, align)
        gap == aligned - ptr
    IN IF gap # 0 /\ gap < gap_minimum
       THEN align_ptr(aligned + Max(gap_minimum - gap, align), align) - ptr
       ELSE gap

\* the size tlsf_memalign asks block_locate_free for
memalign_aligned_size(align, size) ==
    IF align <= ALIGN_SIZE
    THEN adjust_request_size(size, ALIGN_SIZE)
    ELSE adjust_request_size(adjust_request_size(size, ALIGN_SIZE) + align
                                 + sizeof_block_header_t, align)

\* loc = [h, block] is what block_locate_free left, r = [h, p] what
\* tlsf_memalign(align, size) returned, gap the gap computed for loc.block
GapReleased(loc, r, gap, adjust) ==
    /\ r.p = block_to_ptr(loc.block) + gap
    /\ gap = 0 \/ gap >= sizeof_block_header_t
    /\ block_size(loc.h, loc.block) - gap >= adjust
    /\ block_size(r.h, block_from_ptr(r.p)) >= adjust
    /\ gap # 0 =>
           /\ block_can_split(loc.h, loc.block, gap)
           /\ block_is_free(r.h, loc.block)
           /\ block_size(r.h, loc.block) = gap - block_header_overhead
           /\ block_size(r.h, loc.block) >= block_size_min
           /\ Occurrences(r.h, loc.block,
                          mapping_insert(block_size(r.h, loc.block)).fl,
                          mapping_insert(block_size(r.h, loc.block)).sl) = 1
           /\ block_next(r.h, loc.block) = block_from_ptr(r.p)
           /\ block_is_prev_free(r.h, block_from_ptr(r.p))
           /\ block_prev(r.h, block_from_ptr(r.p)) = loc.block

MemalignReleasesGap(loc, align, size) ==
    loc.block # 0 =>
        GapReleased(loc,
                    tlsf_memalign_found(loc, align, adjust_request_size(size, ALIGN_SIZE)),
                    memalign_gap(block_to_ptr(loc.block), align),
                    adjust_request_size(size, ALIGN_SIZE))

\* the request sizes of tlsf_memalign: those of the other calls, and the largest
\* multiple of 8 for which the size with gap of alignment 8 is below block_size_max
GapSizes == Sizes \cup {HugeSize - ALIGN_SIZE - 8 - sizeof_block_header_t}

\* alignments up to 2^MaxAlignLog2 for the gap computation alone
MaxAlignLog2 == 6
GapAligns == {Pow2(k) : k \in (ALIGN_SIZE_LOG2 + 1)..MaxAlignLog2}

\* C21: every successful tlsf_memalign(a, n) with a > ALIGN_SIZE and
\* 0 < n < block_size_max leaves a gap of 0 or of at least sizeof(block_header_t)
\* before the returned pointer; a non-zero gap can be split off the located
\* block and becomes a free block of size gap - block_header_overhead >=
\* block_size_min that is in the free index and is the physical predecessor of
\* the returned block; the block left after the gap has at least the adjusted size.
C21_MemalignGap ==
    /\ \A ptr \in WordAddrs, align \in GapAligns :
           /\ memalign_gap(ptr, align) = 0 \/ memalign_gap(ptr, align) >= sizeof_block_header_t
           /\ (ptr + memalign_gap(ptr, align)) % align = 0
    /\ (valid /\ ~fault) =>
        \A align \in {a \in Aligns : a > ALIGN_SIZE} :
            \A size \in {n \in GapSizes : InRange(n)} :
                \A oob \in OobWords(memalign_aligned_size(align, size)) :
                    MemalignReleasesGap(
                        block_locate_free(Heap, memalign_aligned_size(align, size), oob),
                        align, size)

\* C22: at every API boundary block_null.next_free = block_null.prev_free =
\* &block_null, the head of every empty free list is &block_null, and no head
\* is a null pointer.
C22_NullBlockSelfLinked ==
    valid =>
        /\ block_null[off_next_free] = NullBlock
        /\ block_null[off_prev_free] = NullBlock
        /\ \A bk \in Buckets :
               /\ blocks[bk[1]][bk[2]] # 0
               /\ bk[2] \notin sl_bitmap[bk[1]] => blocks[bk[1]][bk[2]] = NullBlock

\* the address tlsf_add_pool gives the sentinel of a pool
Sentinel(pool) == PoolFirst(pool) + Usable(pool) + block_header_overhead

\* the sentinel of pool is where tlsf_add_pool put it, of size 0 and used, and
\* the walk from the first block meets no other zero-size block and no block
\* that ends behind the sentinel
SentinelKept(h, pool, chain) ==
    /\ chain[Len(chain)] = Sentinel(pool)
    /\ block_size(h, Sentinel(pool)) = 0
    /\ ~block_is_free(h, Sentinel(pool))
    /\ \A i \in 1..(Len(chain) - 1) :
           /\ block_size(h, chain[i]) # 0
           /\ chain[i] < Sentinel(pool)
           /\ block_next(h, chain[i]) <= Sentinel(pool)
           /\ block_next(h, chain[i]) = chain[i + 1]

\* C23: with disjoint pools and valid calls, a successful tlsf_add_pool leaves
\* the pool as one free block of size usable with PREV_FREE clear, followed by
\* a sentinel; each pool's sentinel stays at its address with size 0, marked
\* used, the only zero-size block of its pool; the first block of a pool never
\* has PREV_FREE set; no block extends across a pool boundary.
C23_PoolsKeepSentinel ==
    valid =>
        /\ (op.name = "tlsf_add_pool" /\ op.ret # 0) =>
               /\ Fresh(Heap, [mem |-> op.ptr, bytes |-> op.size])
               /\ ~block_is_prev_free(Heap, PoolFirst([mem |-> op.ptr, bytes |-> op.size]))
               /\ block_is_prev_free(Heap, Sentinel([mem |-> op.ptr, bytes |-> op.size]))
        /\ \A pool \in pools :
               /\ SentinelKept(Heap, pool, Chain(Heap, pool))
               /\ ~block_is_prev_free(Heap, PoolFirst(pool))
               /\ \A other \in pools \ {pool} :
                      \A i \in DOMAIN Chain(Heap, pool) :
                          Chain(Heap, pool)[i] \notin
                              PoolFirst(other)..(Sentinel(other) + block_header_overhead - 1)

\* the words of the payload of the live allocation q in heap h
PayloadWords(h, q) == {a \in WordAddrs : q <= a /\ a < PayloadEnd(h, q)}

\* from heap h to heap g the block of the live allocation q kept its size and
\* its FREE flag and no word of its payload was written
Untouched(h, g, q) ==
    /\ block_size(g, block_from_ptr(q)) = block_size(h, block_from_ptr(q))
    /\ block_is_free(g, block_from_ptr(q)) = block_is_free(h, block_from_ptr(q))
    /\ \A a \in PayloadWords(h, q) : g.mem[a] = h.mem[a]

\* C24: a tlsf_malloc, tlsf_memalign, tlsf_free or tlsf_realloc call with valid
\* arguments leaves, for every live allocation q other than the pointer it is
\* called on, the size and the FREE flag of q's block unchanged and writes
\* nothing into the payload bytes [q, q + block_size(q)); only the PREV_FREE
\* flag of q's size word may change.
C24_OtherAllocationsUntouched ==
    [][(/\ calls' = calls + 1
        /\ valid'
        /\ op'.name \in Allocating \cup {"tlsf_free"})
           => \A q \in live \ {op'.ptr} : Untouched(Heap, Heap', q)]_vars

=============================================================================
